---------------------------- MODULE Spec2Model ----------------------------
(***************************************************************************)
(* Model of the title acquisition engine of WiiUDownloader                 *)
(* (src/downloader.go): the retrying streaming downloader downloadFile and *)
(* the orchestrator DownloadTitle that sequences metadata, ticket,         *)
(* certificate, content and decryption stages.                             *)
(*                                                                         *)
(* The specifications share the variables:                                 *)
(*   Spec               one execution of DownloadTitle calling downloadFile*)
(*   SpecFile           one stand-alone call of downloadFile               *)
(*   SpecFileCancelled  SpecFile entered with a cancellation signal raised *)
(*   SpecProgress       SpecFile together with the updateProgress          *)
(*                      goroutines the call starts                         *)
(* The cancellation context and the reporter's cancelled flag are two      *)
(* independent signals the environment may raise at any time.              *)
(***************************************************************************)
EXTENDS Integers, Sequences, FiniteSets, TLC

\* ------------------------------------------------------------------ bounds
MaxContents == 2            \* content records in the metadata (0..MaxContents)

\* ------------------------------------------------------- program constants
maxRetries == 5             \* downloader.go:18
StatusOK == 200             \* fasthttp.StatusOK, downloader.go:80
Statuses == {200, 404}      \* status codes the CDN answers with

VersionOffset == 476        \* tmdData[476:478], downloader.go:173
CountOffset == 478          \* tmdData[478:480], downloader.go:192
ContentTable == 2820        \* 0xB04, downloader.go:199
ContentStride == 48         \* 0x30, downloader.go:199

SizeUnit == {1000}          \* record k of the metadata has size (k+1) * 1000
ShortLens == {100}          \* lengths of metadata files cut inside the header
VersionBytes == {<<1, 2>>}  \* bytes 476,477 of the metadata
InitTotals == {0, 700}      \* reporter total before the call (700: left by an earlier title)

VARIABLES
    \* --- environment / reporter
    ctxDone,          \* cancelCtx.Done() is closed
    cancelled,        \* progressReporter.Cancelled()
    totalDownloaded,  \* reporter: cumulative downloaded total
    downloadSize,     \* reporter: value given to SetDownloadSize (-1: unset)
    \* --- DownloadTitle frame
    pc,               \* position in DownloadTitle ("standalone": no caller,
                      \* "panicked": ended by a run-time panic)
    doDecryption,
    tmd,              \* the metadata the CDN serves
    titleVersion,     \* uint16 read at offset 476
    contentSizes,     \* []uint64 built by the size loop
    i,                \* index of the content loop
    ret,              \* value DownloadTitle returned
    ticketArgs,       \* arguments GenerateTicket was called with
    log,              \* history: stage begin/end events
    \* --- downloadFile frame
    fpc,              \* position in downloadFile
    doRetries,
    attempt,
    isError,
    respStatus,       \* status code held by the pooled response (0: reset)
    held,             \* request/response pairs acquired and not yet released
    fres,             \* value downloadFile returned
    reqs,             \* history of this call: client.Do calls made
    badResp,          \* history: responses with a non-success status
    pauses,           \* history: time.Sleep(retryDelay) calls made
    slept,            \* history: a pause was made since the last request
    touched,          \* history: destination file "no", "created", "partial" or "written"
    sentStatus,       \* history: status of the last response the server sent
    gor               \* the updateProgress goroutine started in each attempt:
                      \* "none", "wait" (blocked on ticker.C), "check" (has a
                      \* tick, about to call Cancelled), "read" (about to read
                      \* *downloaded and report it) or "done"

envVars == <<ctxDone, cancelled>>
repVars == <<totalDownloaded, downloadSize>>
dtVars  == <<pc, doDecryption, tmd, titleVersion, contentSizes, i, ret, ticketArgs, log>>
dfVars  == <<fpc, doRetries, attempt, isError, respStatus, held, fres, reqs, badResp, pauses, slept,
            touched, sentStatus, gor>>
vars    == <<envVars, repVars, dtVars, dfVars>>

\* ----------------------------------------------------------------- values
\* A Go error value (or nil, or "no value yet"), always the same record shape.
Err(kind, att, code) == [kind |-> kind, attempt |-> att, code |-> code]
Nil   == Err("nil", 0, 0)
NoRes == Err("none", 0, 0)
IsErr(r) == r.kind \notin {"nil", "none"}

\* no goroutine was started in any attempt
NoGoroutines == [a \in 1..maxRetries |-> "none"]

Event(ev, st, idx, res) == [ev |-> ev, st |-> st, idx |-> idx, res |-> res]

\* contentDataLoc / offset of record k (lines 199, 235)
ContentLoc(k) == ContentTable + ContentStride * k

\* The metadata blobs the CDN may serve.  len is the length of the file in
\* bytes; ver, count, size and h3 are the bytes found at their fixed offsets
\* (zero where the file has no such byte).
\*   FullTmds   the header and the whole table of count records
\*   CutTmds    the file ends inside the size field of its last record
\*   ShortTmds  the file ends inside the header
FullTmds ==
    UNION { [ver : VersionBytes, count : {n}, len : {ContentLoc(n)},
             size : {[k \in 0..(n-1) |-> (k + 1) * u] : u \in SizeUnit},
             h3 : [0..(n-1) -> BOOLEAN]] : n \in 0..MaxContents }
CutTmds ==
    UNION { [ver : VersionBytes, count : {n}, len : {ContentLoc(n - 1) + 10},
             size : {[k \in 0..(n-1) |-> IF k = n - 1 THEN 0 ELSE (k + 1) * u]
                        : u \in SizeUnit},
             h3 : [0..(n-1) -> BOOLEAN]] : n \in 1..MaxContents }
ShortTmds ==
    [ver : {<<0, 0>>}, count : {0}, len : ShortLens, size : {<<>>}, h3 : {<<>>}]
Tmds == FullTmds \cup CutTmds \cup ShortTmds

\* os.ReadFile (line 167) returns a slice of the file's length whose capacity
\* is the length plus one and at least 512; the spare bytes are zero.  A slice
\* expression tmdData[lo:hi] panics only when hi exceeds the capacity.
ReadFileCap(n) == IF n + 1 < 512 THEN 512 ELSE n + 1
SliceFaults(t, hi) == hi > ReadFileCap(t.len)

RECURSIVE SumTo(_, _)
SumTo(f, n) == IF n = 0 THEN 0 ELSE f[n-1] + SumTo(f, n-1)

\* binary.Read(..., binary.BigEndian, &titleVersion) over tmdData[476:478]
BigEndian16(b) == b[1] * 256 + b[2]

\* resp.StatusCode(): a reset response header reports StatusOK
StatusCode(s) == IF s = 0 THEN StatusOK ELSE s

\* faulty variants of the retry decision
ShouldRetry_OffByOne(doR, att) == doR /\ att < maxRetries - 1
ShouldRetry_IgnoreFlag(doR, att) == att < maxRetries

\* the retry decision of downloadFile (lines 81 and 126)
ShouldRetry(doR, att) == doR /\ att < maxRetries

\* ------------------------------------------------------------------- Init
IdleFrame ==
    /\ fpc = "idle" /\ doRetries = FALSE /\ attempt = 0 /\ isError = FALSE
    /\ respStatus = 0 /\ held = 0 /\ fres = NoRes
    /\ reqs = 0 /\ badResp = 0 /\ pauses = 0 /\ slept = FALSE /\ touched = "no"
    /\ sentStatus = 0 /\ gor = NoGoroutines

\* DownloadTitle is about to run (downloader.go:146)
Init ==
    /\ ctxDone = FALSE /\ cancelled = FALSE
    /\ totalDownloaded \in InitTotals /\ downloadSize = -1
    /\ pc = "start" /\ doDecryption \in BOOLEAN /\ tmd \in Tmds
    /\ titleVersion = 0 /\ contentSizes = <<>> /\ i = 0 /\ ret = NoRes
    /\ ticketArgs = [called |-> FALSE, version |-> 0]
    /\ log = <<>>
    /\ IdleFrame

\* downloadFile has just been entered by an arbitrary caller (downloader.go:42)
InitFile ==
    /\ ctxDone \in BOOLEAN /\ cancelled \in BOOLEAN
    /\ totalDownloaded = 0 /\ downloadSize = -1
    /\ pc = "standalone" /\ doDecryption = FALSE
    /\ tmd = [ver |-> <<0, 1>>, count |-> 0, len |-> ContentTable,
              size |-> <<>>, h3 |-> <<>>]
    /\ titleVersion = 0 /\ contentSizes = <<>> /\ i = 0 /\ ret = NoRes
    /\ ticketArgs = [called |-> FALSE, version |-> 0]
    /\ log = <<>>
    /\ fpc = "loop" /\ doRetries \in BOOLEAN /\ attempt = 1 /\ isError = FALSE
    /\ respStatus = 0 /\ held = 0 /\ fres = NoRes
    /\ reqs = 0 /\ badResp = 0 /\ pauses = 0 /\ slept = FALSE /\ touched = "no"
    /\ sentStatus = 0 /\ gor = NoGoroutines

\* ------------------------------------------------------------ environment
Finished == pc \in {"returned", "panicked"} \/ (pc = "standalone" /\ fpc = "ret")

\* the caller cancels the context handed to DownloadTitle / downloadFile
CancelCtx ==
    /\ ~Finished /\ ~ctxDone
    /\ ctxDone' = TRUE
    /\ UNCHANGED <<cancelled, repVars, dtVars, dfVars>>

\* the UI calls progressReporter.SetCancelled()
SetCancelled ==
    /\ ~Finished /\ ~cancelled
    /\ cancelled' = TRUE
    /\ UNCHANGED <<ctxDone, repVars, dtVars, dfVars>>

\* ------------------------------------------------------------ downloadFile
\* the stage whose transfer is running: the last "begin" of the log
EndLog(r) ==
    IF pc = "standalone" THEN log
    ELSE Append(log, Event("end", log[Len(log)].st, log[Len(log)].idx, r))

\* return r
Return(r) == fpc' = "ret" /\ fres' = r /\ log' = EndLog(r)

\* attempt++ and the loop condition attempt <= maxRetries (line 59);
\* falling out of the loop returns nil (line 143)
NextIteration ==
    /\ attempt' = attempt + 1
    /\ IF attempt + 1 <= maxRetries
         THEN fpc' = "loop" /\ UNCHANGED <<fres, log>>
         ELSE Return(Nil)

\* lines 60-78, client.Do fails: both pooled objects released, err returned
DF_DoFail ==
    /\ fpc = "loop"
    /\ isError' = FALSE
    /\ reqs' = reqs + 1 /\ slept' = FALSE
    /\ respStatus' = 0
    /\ Return(Err("conn", 0, 0))
    /\ UNCHANGED <<envVars, repVars, pc, doDecryption, tmd, titleVersion,
                   contentSizes, i, ret, ticketArgs, doRetries, attempt, held,
                   badResp, pauses, touched,
                   sentStatus, gor>>

\* lines 60-74, client.Do succeeds: the response carries the server's status
DF_DoResp(status) ==
    /\ fpc = "loop"
    /\ isError' = FALSE
    /\ reqs' = reqs + 1 /\ slept' = FALSE
    /\ badResp' = IF status # StatusOK THEN badResp + 1 ELSE badResp
    /\ held' = held + 1
    /\ respStatus' = status /\ sentStatus' = status
    /\ fpc' = "status"
    /\ UNCHANGED <<envVars, repVars, dtVars, doRetries, attempt, fres, pauses,
                   touched,
                   gor>>

\* lines 80-89: the status check
DF_Status ==
    /\ fpc = "status"
    /\ IF StatusCode(respStatus) # StatusOK
         THEN IF ShouldRetry(doRetries, attempt)
                THEN \* time.Sleep; continue -- nothing is released
                     /\ fpc' = "sleepStatus"
                     /\ UNCHANGED <<respStatus, held, fres, log>>
                ELSE \* released (and reset), then StatusCode() is read
                     /\ held' = held - 1
                     /\ respStatus' = 0
                     /\ Return(Err("status", attempt, StatusCode(respStatus')))
         ELSE /\ fpc' = "create"
              /\ UNCHANGED <<respStatus, held, fres, log>>
    /\ UNCHANGED <<envVars, repVars, pc, doDecryption, tmd, titleVersion,
                   contentSizes, i, ret, ticketArgs, doRetries, attempt, isError,
                   reqs, badResp, pauses, slept, touched,
                   sentStatus, gor>>

\* lines 82-83: the retry delay after a non-success status, then continue
DF_SleepStatus ==
    /\ fpc = "sleepStatus"
    /\ pauses' = pauses + 1 /\ slept' = TRUE
    /\ NextIteration
    /\ UNCHANGED <<envVars, repVars, pc, doDecryption, tmd, titleVersion,
                   contentSizes, i, ret, ticketArgs, doRetries, isError,
                   respStatus, held, reqs, badResp, touched,
                   sentStatus, gor>>

\* lines 91-110: os.Create, go updateProgress, NewFileWriterWithProgress
DF_Create(outcome) ==
    /\ fpc = "create"
    /\ gor' = IF outcome = "createErr" THEN gor
              ELSE [gor EXCEPT ![attempt] = "wait"]      \* line 101
    /\ CASE outcome = "ok" ->
              /\ touched' = "created"
              /\ fpc' = "select"
              /\ UNCHANGED <<respStatus, held, fres, log>>
         [] outcome = "createErr" ->
              /\ touched' = touched
              /\ held' = held - 1 /\ respStatus' = 0
              /\ Return(Err("create", 0, 0))
         [] outcome = "writerErr" ->
              /\ touched' = "created"
              /\ held' = held - 1 /\ respStatus' = 0
              /\ Return(Err("writer", 0, 0))
    /\ UNCHANGED <<envVars, repVars, pc, doDecryption, tmd, titleVersion,
                   contentSizes, i, ret, ticketArgs, doRetries, attempt, isError,
                   reqs, badResp, pauses, slept,
                   sentStatus>>

\* lines 112-119: the one poll of ctx.Done(), after the file was created
DF_Select ==
    /\ fpc = "select"
    /\ IF ctxDone
         THEN /\ held' = held - 1 /\ respStatus' = 0
              /\ Return(Err("ctx", 0, 0))
         ELSE /\ fpc' = "stream"
              /\ UNCHANGED <<respStatus, held, fres, log>>
    /\ UNCHANGED <<envVars, repVars, pc, doDecryption, tmd, titleVersion,
                   contentSizes, i, ret, ticketArgs, doRetries, attempt, isError,
                   reqs, badResp, pauses, slept, touched,
                   sentStatus, gor>>

\* lines 120-140: resp.BodyWriteTo and what follows it
DF_Stream(outcome) ==
    /\ fpc = "stream"
    /\ held' = held - 1 /\ respStatus' = 0
    /\ IF outcome = "ok"
         THEN /\ touched' = "written"
              /\ IF ~isError
                   THEN Return(Nil) /\ UNCHANGED attempt
                   ELSE NextIteration
         ELSE /\ touched' = "partial"
              /\ IF ShouldRetry(doRetries, attempt)
                   THEN fpc' = "sleepWrite" /\ UNCHANGED <<attempt, fres, log>>
                   ELSE Return(Err("write", attempt, 0)) /\ UNCHANGED attempt
    /\ UNCHANGED <<envVars, repVars, pc, doDecryption, tmd, titleVersion,
                   contentSizes, i, ret, ticketArgs, doRetries, isError,
                   reqs, badResp, pauses, slept,
                   sentStatus, gor>>

\* faulty variant: the break at line 129 leaves the for loop, so that the
\* call returns nil (line 143) right after the failed attempt
DF_SleepWrite_Break ==
    /\ fpc = "sleepWrite"
    /\ pauses' = pauses + 1 /\ slept' = TRUE
    /\ isError' = TRUE
    /\ Return(Nil)
    /\ UNCHANGED <<envVars, repVars, pc, doDecryption, tmd, titleVersion,
                   contentSizes, i, ret, ticketArgs, doRetries, respStatus, held,
                   reqs, badResp, touched, attempt,
                   sentStatus, gor>>

\* lines 127-129 and 134: the retry delay after a body error; isError is set,
\* the break leaves the select only, and the loop goes on to the next attempt
DF_SleepWrite ==
    /\ fpc = "sleepWrite"
    /\ pauses' = pauses + 1 /\ slept' = TRUE
    /\ isError' = TRUE
    /\ NextIteration
    /\ UNCHANGED <<envVars, repVars, pc, doDecryption, tmd, titleVersion,
                   contentSizes, i, ret, ticketArgs, doRetries, respStatus, held,
                   reqs, badResp, touched,
                   sentStatus, gor>>

downloadFile ==
    \/ DF_DoFail
    \/ \E status \in Statuses : DF_DoResp(status)
    \/ DF_Status
    \/ DF_SleepStatus
    \/ \E outcome \in {"ok", "createErr", "writerErr"} : DF_Create(outcome)
    \/ DF_Select
    \/ \E outcome \in {"ok", "err"} : DF_Stream(outcome)
    \/ DF_SleepWrite

NextFile == downloadFile \/ CancelCtx \/ SetCancelled
SpecFile == InitFile /\ [][NextFile]_vars

\* ---------------------------------------------------------- updateProgress
\* The goroutine started at line 101 in attempt a (lines 50-57).  It shares
\* the one ticker of the call, which delivers ticks from line 46 until the
\* deferred ticker.Stop() runs at the return; Stop does not close ticker.C.
TickerRunning == fpc \notin {"idle", "ret"}

\* the goroutines that have not left their loop
Live == {a \in 1..maxRetries : gor[a] \in {"wait", "check", "read"}}

\* The counting writer made at line 103 adds to *downloaded on every write
\* that resp.BodyWriteTo (line 120) makes, without a lock or an atomic.
WriterCounts(a) == fpc = "stream" /\ a = attempt

\* line 51: `for range ticker.C` receives a tick
G_Tick(a) ==
    /\ gor[a] = "wait" /\ TickerRunning
    /\ gor' = [gor EXCEPT ![a] = "check"]
    /\ UNCHANGED <<envVars, repVars, dtVars, fpc, doRetries, attempt, isError,
                   respStatus, held, fres, reqs, badResp, pauses, slept,
                   touched, sentStatus>>

\* lines 52-54: progressReporter.Cancelled() is polled; break when it holds
G_Check(a) ==
    /\ gor[a] = "check"
    /\ gor' = [gor EXCEPT ![a] = IF cancelled THEN "done" ELSE "read"]
    /\ UNCHANGED <<envVars, repVars, dtVars, fpc, doRetries, attempt, isError,
                   respStatus, held, fres, reqs, badResp, pauses, slept,
                   touched, sentStatus>>

\* line 55: *downloaded is read (a plain load) and handed to
\* UpdateDownloadProgress; the loop then waits for the next tick
G_Report(a) ==
    /\ gor[a] = "read"
    /\ gor' = [gor EXCEPT ![a] = "wait"]
    /\ UNCHANGED <<envVars, repVars, dtVars, fpc, doRetries, attempt, isError,
                   respStatus, held, fres, reqs, badResp, pauses, slept,
                   touched, sentStatus>>

updateProgress ==
    \E a \in 1..maxRetries : G_Tick(a) \/ G_Check(a) \/ G_Report(a)

\* downloadFile together with the goroutines it starts
NextProgress == NextFile \/ updateProgress
SpecProgress == InitFile /\ [][NextProgress]_vars

\* ----------------------------------------------------------- DownloadTitle
contentCount == tmd.count    \* uint16 read at offset 478 (line 192)

\* downloadFile(cancelCtx, progressReporter, client, url, path, retries)
Call(retries) ==
    /\ fpc' = "loop" /\ doRetries' = retries /\ attempt' = 1 /\ isError' = FALSE
    /\ respStatus' = 0 /\ held' = 0 /\ fres' = NoRes
    /\ reqs' = 0 /\ badResp' = 0 /\ pauses' = 0 /\ slept' = FALSE /\ touched' = "no"
    /\ sentStatus' = 0 /\ gor' = NoGoroutines

\* the callee's frame is gone once its result has been examined
PopFrame ==
    /\ fpc' = "idle" /\ doRetries' = FALSE /\ attempt' = 0 /\ isError' = FALSE
    /\ respStatus' = 0 /\ held' = 0 /\ fres' = NoRes
    /\ reqs' = 0 /\ badResp' = 0 /\ pauses' = 0 /\ slept' = FALSE /\ touched' = "no"
    /\ sentStatus' = 0 /\ gor' = NoGoroutines

Begin(st, idx) == Append(log, Event("begin", st, idx, NoRes))
Done(st, idx, r) == Append(Begin(st, idx), Event("end", st, idx, r))

\* faulty variant: the error is swallowed
OnError_Swallow(flag, err) == Nil

\* `if progressReporter.Cancelled() { return nil }; return err`
\* (lines 161-164, 214-217)
OnError(flag, err) == IF flag THEN Nil ELSE err

\* faulty variant: the ticket is fetched like every other file
TicketRetries_On == TRUE

\* the doRetries argument of the cetk fetch (line 178)
TicketRetries == FALSE

\* faulty variant: the first record's size is added for every record
AppDelta_First(sz, idx) == sz[0]

\* the delta handed to AddToTotalDownloaded (line 247)
AppDelta(sz, idx) == sz[idx]

\* faulty variant: the flag byte of record 0 is read for every record
HasH3_Stale(idx) == tmd.h3[0]

\* tmdData[offset+7]&0x2 == 2 (line 249)
HasH3(idx) == tmd.h3[idx]

\* faulty variant: the cancelled flag is not polled before decrypting
ShouldDecrypt_NoPoll(dec, flag) == dec

\* doDecryption && !progressReporter.Cancelled() (line 263)
ShouldDecrypt(dec, flag) == dec /\ ~flag

\* lines 147-160: reset the total, create the directory, start the tmd fetch
DT_Start(mkdirOk) ==
    /\ pc = "start"
    /\ totalDownloaded' = 0
    /\ IF mkdirOk
         THEN /\ pc' = "tmd"
              /\ log' = Begin("tmd", 0)
              /\ Call(TRUE)
              /\ UNCHANGED ret
         ELSE /\ pc' = "returned"
              /\ ret' = Err("mkdir", 0, 0)
              /\ UNCHANGED <<log, dfVars>>
    /\ UNCHANGED <<envVars, downloadSize, doDecryption, tmd, titleVersion,
                   contentSizes, i, ticketArgs>>

\* lines 160-178: result of the tmd fetch, ReadFile, the version, the cetk fetch
DT_AfterTmd(readOk) ==
    /\ pc = "tmd" /\ fpc = "ret"
    /\ IF IsErr(fres)
         THEN /\ pc' = "returned"
              /\ ret' = OnError(cancelled, fres)
              /\ PopFrame
              /\ UNCHANGED <<titleVersion, log>>
         ELSE IF ~readOk
                THEN /\ pc' = "returned"
                     /\ ret' = Err("readFile", 0, 0)
                     /\ PopFrame
                     /\ UNCHANGED <<titleVersion, log>>
                ELSE IF SliceFaults(tmd, VersionOffset + 2)
                       THEN /\ pc' = "panicked"
                            /\ log' = Append(log, Event("panic", "tmd", 0, NoRes))
                            /\ PopFrame
                            /\ UNCHANGED <<titleVersion, ret>>
                       ELSE /\ titleVersion' = BigEndian16(tmd.ver)
                            /\ pc' = "cetk"
                            /\ log' = Begin("cetk", 0)
                            /\ Call(TicketRetries)
                            /\ UNCHANGED ret
    /\ UNCHANGED <<envVars, repVars, doDecryption, tmd, contentSizes, i,
                   ticketArgs>>

\* lines 178-189: result of the cetk fetch
DT_AfterCetk ==
    /\ pc = "cetk" /\ fpc = "ret"
    /\ IF IsErr(fres)
         THEN IF cancelled
                THEN pc' = "returned" /\ ret' = Nil
                ELSE pc' = "genKey" /\ UNCHANGED ret
         ELSE pc' = "sizes" /\ UNCHANGED ret
    /\ PopFrame
    /\ UNCHANGED <<envVars, repVars, doDecryption, tmd, titleVersion,
                   contentSizes, i, ticketArgs, log>>

\* lines 182-185: GenerateKey(titleID)
DT_GenerateKey(ok) ==
    /\ pc = "genKey"
    /\ IF ok
         THEN /\ pc' = "genTicket" /\ log' = Done("genKey", 0, Nil)
              /\ UNCHANGED ret
         ELSE /\ pc' = "returned" /\ ret' = Err("genKey", 0, 0)
              /\ log' = Done("genKey", 0, Err("genKey", 0, 0))
    /\ UNCHANGED <<envVars, repVars, doDecryption, tmd, titleVersion,
                   contentSizes, i, ticketArgs, dfVars>>

\* lines 186-188: GenerateTicket(tikPath, tEntry.TitleID, titleKey, titleVersion)
DT_GenerateTicket(ok) ==
    /\ pc = "genTicket"
    /\ ticketArgs' = [called |-> TRUE, version |-> titleVersion]
    /\ IF ok
         THEN /\ pc' = "sizes" /\ log' = Done("genTicket", 0, Nil)
              /\ UNCHANGED ret
         ELSE /\ pc' = "returned" /\ ret' = Err("genTicket", 0, 0)
              /\ log' = Done("genTicket", 0, Err("genTicket", 0, 0))
    /\ UNCHANGED <<envVars, repVars, doDecryption, tmd, titleVersion,
                   contentSizes, i, dfVars>>

\* lines 192 and 202: tmdData[478:480] and, for every record below the
\* content count, tmdData[contentDataLoc+8 : contentDataLoc+16]
SizesFault(t) ==
    \/ SliceFaults(t, CountOffset + 2)
    \/ \E k \in 0..(t.count - 1) : SliceFaults(t, ContentLoc(k) + 16)

\* lines 191-212: content count, the size loop, SetDownloadSize, and the
\* call of GenerateCert
DT_Sizes ==
    /\ pc = "sizes"
    /\ IF SizesFault(tmd)
         THEN /\ pc' = "panicked"
              /\ log' = Append(log, Event("panic", "sizes", 0, NoRes))
              /\ UNCHANGED <<contentSizes, downloadSize>>
         ELSE /\ contentSizes' = [k \in 0..(contentCount - 1) |-> tmd.size[k]]
              /\ downloadSize' = SumTo(contentSizes', contentCount)
              /\ pc' = "cert"
              /\ log' = Begin("cert", 0)
    /\ UNCHANGED <<envVars, totalDownloaded, doDecryption, tmd, titleVersion, i,
                   ret, ticketArgs, dfVars>>

\* lines 212-218: GenerateCert returns; it may fail, also with the context's
\* error once the context is cancelled
DT_GenerateCert(outcome) ==
    /\ pc = "cert"
    /\ outcome = "ctx" => ctxDone
    /\ IF outcome = "ok"
         THEN /\ pc' = "certFile" /\ log' = Append(log, Event("end", "cert", 0, Nil))
              /\ UNCHANGED ret
         ELSE /\ pc' = "returned"
              /\ ret' = OnError(cancelled, Err(outcome, 0, 0))
              /\ log' = Append(log, Event("end", "cert", 0, Err(outcome, 0, 0)))
    /\ UNCHANGED <<envVars, repVars, doDecryption, tmd, titleVersion,
                   contentSizes, i, ticketArgs, dfVars>>

\* lines 220-232: title.cert is created and written
DT_SaveCert(ok) ==
    /\ pc = "certFile"
    /\ IF ok
         THEN pc' = "loop" /\ i' = 0 /\ UNCHANGED ret
         ELSE pc' = "returned" /\ ret' = Err("certFile", 0, 0) /\ UNCHANGED i
    /\ UNCHANGED <<envVars, repVars, doDecryption, tmd, titleVersion,
                   contentSizes, ticketArgs, log, dfVars>>

\* lines 234-241: the loop condition and the start of record i's .app fetch
DT_LoopHead ==
    /\ pc = "loop"
    /\ IF i < contentCount
         THEN /\ pc' = "app"
              /\ log' = Begin("app", i)
              /\ Call(TRUE)
         ELSE /\ pc' = "afterLoop"
              /\ UNCHANGED <<log, dfVars>>
    /\ UNCHANGED <<envVars, repVars, doDecryption, tmd, titleVersion,
                   contentSizes, i, ret, ticketArgs>>

\* lines 241-251: result of the .app fetch, the total, the start of the .h3 fetch
DT_AfterApp ==
    /\ pc = "app" /\ fpc = "ret"
    /\ IF IsErr(fres)
         THEN /\ IF cancelled
                   THEN pc' = "afterLoop" /\ UNCHANGED ret
                   ELSE pc' = "returned" /\ ret' = fres
              /\ PopFrame
              /\ UNCHANGED <<totalDownloaded, log>>
         ELSE /\ totalDownloaded' = totalDownloaded + AppDelta(contentSizes, i)
              /\ UNCHANGED ret
              /\ IF HasH3(i)
                   THEN /\ pc' = "h3"
                        /\ log' = Append(Append(log, Event("add", "app", i, NoRes)),
                                         Event("begin", "h3", i, NoRes))
                        /\ Call(TRUE)
                   ELSE /\ pc' = "tail"
                        /\ log' = Append(log, Event("add", "app", i, NoRes))
                        /\ PopFrame
    /\ UNCHANGED <<envVars, downloadSize, doDecryption, tmd, titleVersion,
                   contentSizes, i, ticketArgs>>

\* lines 251-256: result of the .h3 fetch
DT_AfterH3 ==
    /\ pc = "h3" /\ fpc = "ret"
    /\ IF IsErr(fres)
         THEN IF cancelled
                THEN pc' = "afterLoop" /\ UNCHANGED ret
                ELSE pc' = "returned" /\ ret' = fres
         ELSE pc' = "tail" /\ UNCHANGED ret
    /\ PopFrame
    /\ UNCHANGED <<envVars, repVars, doDecryption, tmd, titleVersion,
                   contentSizes, i, ticketArgs, log>>

\* lines 258-261: the poll at the end of the loop body, then i++
DT_LoopTail ==
    /\ pc = "tail"
    /\ IF cancelled
         THEN pc' = "afterLoop" /\ UNCHANGED i
         ELSE pc' = "loop" /\ i' = i + 1
    /\ UNCHANGED <<envVars, repVars, doDecryption, tmd, titleVersion,
                   contentSizes, ret, ticketArgs, log, dfVars>>

\* lines 263-269: the decryption guard; DecryptContents is entered or nil returned
DT_AfterLoop ==
    /\ pc = "afterLoop"
    /\ IF ShouldDecrypt(doDecryption, cancelled)
         THEN pc' = "decrypt" /\ log' = Begin("decrypt", 0) /\ UNCHANGED ret
         ELSE pc' = "returned" /\ ret' = Nil /\ UNCHANGED log
    /\ UNCHANGED <<envVars, repVars, doDecryption, tmd, titleVersion,
                   contentSizes, i, ticketArgs, dfVars>>

\* lines 264-269: DecryptContents returns
DT_Decrypt(ok) ==
    /\ pc = "decrypt"
    /\ pc' = "returned"
    /\ ret' = IF ok THEN Nil ELSE Err("decrypt", 0, 0)
    /\ log' = Append(log, Event("end", "decrypt", 0, ret'))
    /\ UNCHANGED <<envVars, repVars, doDecryption, tmd, titleVersion,
                   contentSizes, i, ticketArgs, dfVars>>

DownloadTitle ==
    \/ \E ok \in BOOLEAN : DT_Start(ok)
    \/ \E ok \in BOOLEAN : DT_AfterTmd(ok)
    \/ DT_AfterCetk
    \/ \E ok \in BOOLEAN : DT_GenerateKey(ok)
    \/ \E ok \in BOOLEAN : DT_GenerateTicket(ok)
    \/ DT_Sizes
    \/ \E outcome \in {"ok", "cert", "ctx"} : DT_GenerateCert(outcome)
    \/ \E ok \in BOOLEAN : DT_SaveCert(ok)
    \/ DT_LoopHead
    \/ DT_AfterApp
    \/ DT_AfterH3
    \/ DT_LoopTail
    \/ DT_AfterLoop
    \/ \E ok \in BOOLEAN : DT_Decrypt(ok)

Next == DownloadTitle \/ downloadFile \/ CancelCtx \/ SetCancelled
Spec == Init /\ [][Next]_vars

\* downloadFile entered with a cancellation signal already raised
InitFileCancelled == InitFile /\ (ctxDone \/ cancelled)
SpecFileCancelled == InitFileCancelled /\ [][NextFile]_vars

\* ================================================================= claims

\* C1: a retrying call whose every request was answered with a non-success
\* status returns only after exactly maxRetries requests and maxRetries - 1
\* pauses, with a status error carrying attempt maxRetries; a further request
\* is only ever issued after a pause that followed the previous request, and
\* no pause follows the last request.
C1_RetryBudget ==
    /\ (fpc = "ret" /\ doRetries /\ badResp = reqs) =>
           /\ reqs = maxRetries
           /\ pauses = maxRetries - 1
           /\ ~slept
           /\ fres.kind = "status" /\ fres.attempt = maxRetries
    /\ (fpc = "loop" /\ reqs > 0) => (slept /\ pauses = reqs)
    /\ pauses <= reqs

C1_Witness ==
    /\ fpc = "ret" /\ doRetries /\ badResp = reqs /\ reqs = 5 /\ pauses = 4
    /\ fres.kind = "status" /\ fres.attempt = 5

\* C2: a non-retrying call makes exactly one request and no pause; it returns
\* nil only when that one attempt got a success status and streamed the body,
\* and otherwise returns the error of its first failure.
C2_SingleAttempt ==
    ~doRetries =>
        /\ reqs <= 1 /\ pauses = 0
        /\ fpc \notin {"sleepStatus", "sleepWrite"}
        /\ fpc = "ret" =>
               /\ reqs = 1
               /\ fres # NoRes
               /\ fres = Nil => (badResp = 0 /\ touched = "written")
               /\ badResp = 1 => fres.kind = "status"
               /\ touched = "partial" => fres.kind = "write"

C2_Witness ==
    fpc = "ret" /\ ~doRetries /\ reqs = 1 /\ pauses = 0 /\ fres.kind = "write"

\* C4 (as claimed): a call entered with cancellation already signalled, and
\* ending by success or by cancellation, returns nil and has not touched the
\* destination file.
C4_Original ==
    (fpc = "ret" /\ fres.kind \in {"nil", "ctx"}) =>
        (fres = Nil /\ touched = "no")

\* C3 (as claimed): DownloadTitle never returns the cancellation error.
C3_Original == pc = "returned" => ret.kind # "ctx"

\* C5 (as claimed): once the cetk fetch has ended with the cancellation error,
\* GenerateKey is never executed.
C5_Original ==
    \A j, k \in 1..Len(log) :
        ~ ( /\ j < k
            /\ log[j].ev = "end" /\ log[j].st = "cetk" /\ log[j].res.kind = "ctx"
            /\ log[k].st = "genKey" )

Last(q) == q[Len(q)]

\* C6: the cetk fetch is one non-retrying attempt; when it has failed and the
\* reporter is not cancelled, DownloadTitle goes on to GenerateKey, then
\* GenerateTicket with the big-endian version of the metadata, then the
\* certificate stage; a return right after the cetk fetch is a nil return, and
\* an error is returned from the ticket stage only by the synthesis itself.
C6_TicketFallback ==
    /\ pc = "cetk" => (~doRetries /\ reqs <= 1 /\ pauses = 0)
    /\ (pc = "cetk" /\ fpc = "ret") => reqs = 1
    /\ (Len(log) > 0 /\ Last(log).st = "cetk" /\ Last(log).ev = "end"
           /\ fpc = "idle") =>
           /\ pc = "returned" => ret = Nil
           /\ (IsErr(Last(log).res) /\ ~cancelled) => pc = "genKey"
           /\ ~IsErr(Last(log).res) => pc = "sizes"
    /\ (Len(log) > 0 /\ Last(log).st = "genKey") =>
           IF IsErr(Last(log).res)
             THEN pc = "returned" /\ ret = Last(log).res
             ELSE pc = "genTicket"
    /\ (Len(log) > 0 /\ Last(log).st = "genTicket") =>
           /\ ticketArgs.called
           /\ ticketArgs.version = tmd.ver[1] * 256 + tmd.ver[2]
           /\ IF IsErr(Last(log).res)
                THEN pc = "returned" /\ ret = Last(log).res
                ELSE pc = "sizes"
    /\ ticketArgs.called =>
           \E k \in 1..Len(log) :
               log[k].st = "cetk" /\ log[k].ev = "end" /\ IsErr(log[k].res)

C6_Witness ==
    /\ pc = "cert" /\ ticketArgs.called /\ ~cancelled /\ ~ctxDone
    /\ \E k \in 1..Len(log) :
           log[k].st = "cetk" /\ log[k].ev = "end" /\ log[k].res.kind = "status"

IsStageEvent(e) == e.ev \in {"begin", "end"}
StageLog == SelectSeq(log, IsStageEvent)

\* the stage that may begin after record idx is complete
AfterRecord(idx, b) ==
    IF idx + 1 < tmd.count
      THEN b.st = "app" /\ b.idx = idx + 1
      ELSE b.st = "decrypt"

\* stage b may begin right after stage a
StageOrderOK(a, b) ==
    CASE a.st = "tmd" -> b.st = "cetk"
      [] a.st = "cetk" -> b.st \in {"genKey", "cert"}
      [] a.st = "genKey" -> b.st = "genTicket"
      [] a.st = "genTicket" -> b.st = "cert"
      [] a.st = "cert" ->
            IF tmd.count > 0 THEN b.st = "app" /\ b.idx = 0 ELSE b.st = "decrypt"
      [] a.st = "app" ->
            IF tmd.h3[a.idx] THEN b.st = "h3" /\ b.idx = a.idx
            ELSE AfterRecord(a.idx, b)
      [] a.st = "h3" -> AfterRecord(a.idx, b)
      [] OTHER -> FALSE

\* C7: the stages of one execution begin and end strictly alternately (a
\* stage begins only after the previous one has ended), the first is the
\* metadata fetch, and each next stage is the successor in the fixed order
\* tmd, cetk, (GenerateKey, GenerateTicket), cert, then per record in metadata
\* order its .app and, when flagged, its .h3, then decryption; a transfer is
\* in progress only inside the stage that began last.
C7_Sequential ==
    LET E == StageLog IN
    /\ \A k \in 1..Len(E) : E[k].ev = IF k % 2 = 1 THEN "begin" ELSE "end"
    /\ \A k \in 1..Len(E) :
           k % 2 = 0 => (E[k].st = E[k-1].st /\ E[k].idx = E[k-1].idx)
    /\ Len(E) > 0 => E[1].st = "tmd"
    /\ \A k \in 1..Len(E) :
           (k % 2 = 1 /\ k + 2 <= Len(E)) => StageOrderOK(E[k], E[k+2])
    /\ fpc \notin {"idle", "ret"} =>
           /\ Len(E) > 0 /\ E[Len(E)].ev = "begin"
           /\ E[Len(E)].st \in {"tmd", "cetk", "app", "h3"}
    /\ pc \in {"app", "h3"} => (E[Len(E)].st = pc /\ E[Len(E)].idx = i)

C7_Witness ==
    /\ pc = "returned" /\ ret = Nil /\ tmd.count = 2 /\ tmd.h3[0] /\ ~tmd.h3[1]
    /\ Len(log) > 0
    /\ Last(log).st = "decrypt" /\ Last(log).ev = "end"
    /\ \E k \in 1..Len(log) : log[k].st = "genTicket"
    /\ \E k \in 1..Len(log) : log[k].st = "app" /\ log[k].idx = 1

\* C8: while the reporter is not cancelled, an error ending the tmd fetch, the
\* certificate assembly or an .app/.h3 fetch is the last stage event of the
\* execution, and it is the value DownloadTitle returns.
C8_FailFast ==
    \A k \in 1..Len(log) :
        ( /\ log[k].ev = "end" /\ log[k].st \in {"tmd", "cert", "app", "h3"}
          /\ IsErr(log[k].res) /\ ~cancelled ) =>
            /\ k = Len(log)
            /\ pc = "returned" \/ fpc = "ret"
            /\ pc = "returned" => ret = log[k].res

C8_Witness ==
    /\ pc = "returned" /\ ~cancelled /\ ~ctxDone /\ doDecryption
    /\ Len(log) > 0
    /\ Last(log).st = "h3" /\ Last(log).ev = "end"
    /\ IsErr(ret) /\ ret = Last(log).res

LoopPcs == {"loop", "app", "h3", "tail", "afterLoop"}

\* C9: from a state of the content loop (up to and including the decryption
\* guard that follows it) in which the reporter's flag is set, no step enters
\* DecryptContents, every step stays in the loop or returns, and a return is
\* a nil return.
C9_NoDecryptAfterCancel ==
    [][ (cancelled /\ pc \in LoopPcs) =>
            /\ pc' \in LoopPcs \cup {"returned"}
            /\ pc' = "returned" => ret' = Nil ]_vars

C9_Witness ==
    /\ pc = "returned" /\ cancelled /\ ~ctxDone /\ doDecryption /\ ret = Nil
    /\ tmd.count = 2 /\ i = 1
    /\ \A k \in 1..Len(log) : log[k].st # "decrypt"

\* C10: when DecryptContents has been invoked, the reporter's total and the
\* value given to SetDownloadSize both equal the sum of the sizes of all
\* content records, and every record's size was added exactly once, right
\* after that record's .app fetch returned nil.
C10_TotalBeforeDecrypt ==
    pc = "decrypt" =>
        /\ totalDownloaded = SumTo(tmd.size, tmd.count)
        /\ downloadSize = SumTo(tmd.size, tmd.count)
        /\ \A r \in 0..(tmd.count - 1) :
               /\ Cardinality({k \in 1..Len(log) :
                                 log[k].ev = "add" /\ log[k].idx = r}) = 1
               /\ \A k \in 1..Len(log) :
                      (log[k].ev = "add" /\ log[k].idx = r) =>
                          (k > 1 /\ log[k-1] = Event("end", "app", r, Nil))

C10_Witness ==
    /\ pc = "decrypt" /\ tmd.count = 2 /\ totalDownloaded = 3000
    /\ downloadSize = 3000

\* the buffer is too short for a fixed offset it is read at
TmdTooShort(t) ==
    \/ t.len < CountOffset + 2
    \/ \E k \in 0..(t.count - 1) : t.len < ContentLoc(k) + 16

\* C11 (as claimed): with a metadata buffer that is too short DownloadTitle
\* never panics, and never gets past the parse to the certificate stage (which
\* it can only by reading bytes outside the buffer).
C11_Original == TmdTooShort(tmd) => pc \notin {"panicked", "cert"}

\* C12: a body/write error is never dropped.  The call returns nil only when
\* the last thing done to the destination file was a complete, error-free
\* stream of the body and no request was made after it; a call that returns
\* with the file left partial returns an error; a failed stream is followed by
\* the retry delay only when doRetries holds and attempts remain, and otherwise
\* by an error return carrying the attempt; and the delay is followed by the
\* next attempt, which begins with a request.
C12_NoSilentDrop ==
    /\ [](/\ (fpc = "ret" /\ fres = Nil) => (touched = "written" /\ ~slept)
          /\ (fpc = "ret" /\ touched = "partial") => IsErr(fres)
          /\ fpc = "sleepWrite" =>
                 (touched = "partial" /\ doRetries /\ attempt < maxRetries))
    /\ [][/\ (fpc = "stream" /\ touched' = "partial") =>
                 \/ fpc' = "sleepWrite"
                 \/ /\ fpc' = "ret" /\ fres' = Err("write", attempt, 0)
                    /\ ~(doRetries /\ attempt < maxRetries)
          /\ (fpc = "sleepWrite" /\ fpc' # fpc) =>
                 (fpc' = "loop" /\ attempt' = attempt + 1 /\ touched' = touched)
          /\ (fpc = "loop" /\ fpc' # fpc) => reqs' = reqs + 1]_vars

C12_Witness ==
    /\ fpc = "ret" /\ fres = Nil /\ touched = "written"
    /\ pauses >= 1 /\ badResp = 0 /\ attempt >= 2

\* C13 (as claimed): when downloadFile has returned, every pooled request and
\* response pair acquired in any attempt has been released; none is leaked
\* across a retry.
C13_Original == fpc = "ret" => held = 0

\* C14 (as claimed): with doRetries a connection error is retried up to the
\* attempt budget, so that a call that returns the error of client.Do has
\* made maxRetries requests.
C14_Original ==
    (fpc = "ret" /\ doRetries /\ fres.kind = "conn") => reqs = maxRetries

\* C15 (as claimed): once the context is cancelled or the reporter's flag is
\* set, downloadFile does not follow a failed attempt and its delay with
\* another request.
C15_Original ==
    [][~((ctxDone \/ cancelled) /\ reqs >= 1 /\ slept /\ reqs' = reqs + 1)]_vars

\* C18 (as claimed): the status error downloadFile returns carries the status
\* code the server sent in the last attempt's response.
C18_Original ==
    (fpc = "ret" /\ fres.kind = "status") => fres.code = sentStatus

\* C16 (as claimed): the reporter goroutine is never about to load *downloaded
\* while the counting writer of the same attempt is storing to it.
C16_Original ==
    \A a \in 1..maxRetries : ~(gor[a] = "read" /\ WriterCounts(a))

\* C17 (as claimed): no UpdateDownloadProgress call is made after downloadFile
\* has returned.
C17_Original ==
    [][\A a \in 1..maxRetries :
           (gor[a] = "read" /\ gor'[a] = "wait") => fpc # "ret"]_vars

\* C19 (as claimed): once downloadFile has returned, no reporter goroutine is
\* left blocked on the channel of the stopped ticker.
C19_Original ==
    fpc = "ret" => \A a \in 1..maxRetries : gor[a] # "wait"

\* C20 (as claimed): at most one reporter goroutine of a call is live, and a
\* live one belongs to the current attempt.
C20_Original ==
    /\ Cardinality(Live) <= 1
    /\ \A a \in Live : a = attempt

=============================================================================
